---- MODULE Spec2Model ----
(***************************************************************************)
(* Dedupe (src/src/dedupe.go): the duplicate-file finder as a state        *)
(* machine.  main() walks every root of --partitions into sizeMap, hashes  *)
(* the members of every size bucket with two or more entries into hashMap, *)
(* sorts every digest group with two or more members, keeps the element at *)
(* position 0 and removes (or only reports) the others, then prints the    *)
(* summary.  The file system is part of the state; another process may     *)
(* remove a file while the program runs.                                   *)
(***************************************************************************)
EXTENDS Integers, Sequences, FiniteSets, TLC

\* ------------------------------------------------------------------ bounds
MaxEnvRemoves == 1       \* removals by other processes during one run
MaxRemoveFailures == 1   \* calls of os.Remove that fail on an existing file

\* ------------------------------------------------------- program constants
MB == 1048576        \* 1024*1024, the divisor of the summary line

\* The scanned tree: the directory "top" holds the entry "top/a" and the
\* directory "top/sub", which holds two entries.
Paths == {"top/a", "top/sub/b", "top/sub/c"}
Roots == {"top", "top/sub"}
None == 0

\* Modification times, older first, and volume names in lexical order (0 is
\* the empty volume name, the only one on a system without drive letters).
MTimes == {0, 1}
Volumes == {0, 1}

\* filepath.Walk(root, fn) calls fn on the root, then on what is below it, in
\* lexical order.
Entries(root) ==
    IF root = "top"
      THEN <<"top", "top/a", "top/sub", "top/sub/b", "top/sub/c">>
      ELSE <<"top/sub", "top/sub/b", "top/sub/c">>

\* --partitions: a root, or two, with a root named twice and a root nested in
\* the other among them.
PartitionLists == {<<r>> : r \in Roots} \cup (Roots \X Roots)

\* File contents are byte strings; a file's size is the length of its content.
Contents == {<<>>, <<0>>, <<1>>, <<0, 0>>}

\* The files a path may hold.  Times and volumes vary on the files of content
\* <<0>>; the other contents are there to differ from it in digest or in size.
FileInfos ==
    {f \in [kind : {"symlink", "file"}, content : Contents,
            mtime : MTimes, vol : Volumes] :
        /\ f.kind = "symlink" => f.content = <<0>>
        /\ (f.kind # "file" \/ f.content # <<0>>) => (f.mtime = 0 /\ f.vol = 0)}

VARIABLES
    partitions,     \* --partitions, split: a sequence of roots
    dryRun,         \* --dry-run
    confirm,        \* --confirm
    info,           \* path -> what lstat/stat report for it while it exists
    present,        \* the paths that exist in the file system now
    envRemoves,     \* removals done by other processes so far
    pc,             \* "walk", "hash", "process", "done", "panic"
    rootIdx,        \* walk: index into partitions
    entryIdx,       \* walk: index into the entries of the current root
    sizeMap,        \* size -> paths, in discovery order
    sizesDone,      \* hashing loop: the keys of sizeMap already ranged over
    curSize,        \* hashing loop: the bucket being hashed, or None
    fileIdx,        \* hashing loop: index into the current bucket
    hashMap,        \* digest -> paths, in hashing order; sorted in place
    totalFiles,
    hashesDone,     \* processing loop: the keys of hashMap already ranged over
    curHash,        \* processing loop: the group being processed, or None
    dupIdx,         \* processing loop: index into the current group's duplicates
    duplicateCount,
    totalSaved,
    response,       \* what fmt.Scanln read last
    stdout,         \* lines printed with fmt.Printf
    errlog          \* lines logged with log.Printf

vars == <<partitions, dryRun, confirm, info, present, envRemoves, pc,
          rootIdx, entryIdx, sizeMap, sizesDone, curSize, fileIdx, hashMap,
          totalFiles, hashesDone, curHash, dupIdx, duplicateCount, totalSaved,
          response, stdout, errlog>>

inputVars == <<partitions, dryRun, confirm, info>>
walkVars == <<rootIdx, entryIdx, sizeMap>>
hashVars == <<sizesDone, curSize, fileIdx, totalFiles>>
procVars == <<hashesDone, curHash, dupIdx, duplicateCount, totalSaved, response>>

\* ------------------------------------------------------------ pure helpers
Size(p) == Len(info[p].content)
ModTime(p) == info[p].mtime
VolumeName(p) == info[p].vol

IsDir(p) == p \in Roots

\* os.Lstat / os.Stat / os.Open succeed exactly on the paths that exist; the
\* two directories exist throughout.
StatOk(p) == p \in Roots \/ p \in present

\* A digest that tells the empty content from the others and nothing else.
Sha256Colliding(c) == IF c = <<>> THEN 0 ELSE 1

RECURSIVE Sha256(_)
\* The digest of a content: injective on Contents (no collisions).
Sha256(c) == IF c = <<>> THEN 0 ELSE (Head(c) + 1) + 3 * Sha256(Tail(c))

\* fileHash: the hex digest, or an error when the file cannot be opened.
FileHashOk(p) == StatOk(p)
FileHash(p) == Sha256(info[p].content)

\* m[k] = append(m[k], p) on a Go map of slices.
MapAppend(m, k, p) ==
    IF k \in DOMAIN m THEN [m EXCEPT ![k] = Append(@, p)] ELSE m @@ (k :> <<p>>)

Init ==
    /\ partitions \in PartitionLists
    /\ dryRun \in BOOLEAN
    /\ confirm \in BOOLEAN
    /\ info \in [Paths -> FileInfos]
    /\ present = Paths
    /\ envRemoves = 0
    /\ pc = "walk"
    /\ rootIdx = 1
    /\ entryIdx = 1
    /\ sizeMap = <<>>
    /\ sizesDone = {}
    /\ curSize = None
    /\ fileIdx = 1
    /\ hashMap = <<>>
    /\ totalFiles = 0
    /\ hashesDone = {}
    /\ curHash = None
    /\ dupIdx = 1
    /\ duplicateCount = 0
    /\ totalSaved = 0
    /\ response = ""
    /\ stdout = <<>>
    /\ errlog = <<>>

\* ------------------------------------------------------------------ walk
\* One call of the filepath.Walk callback (lines 37-54), and the advance of the
\* two loops around it.
WalkEntry ==
    /\ pc = "walk"
    /\ rootIdx <= Len(partitions)
    /\ LET entries == Entries(partitions[rootIdx])
           path == entries[entryIdx]
           last == entryIdx = Len(entries)
       IN  /\ IF ~StatOk(path)
                THEN /\ errlog' = Append(errlog, <<"Error accessing", path>>)
                     /\ sizeMap' = sizeMap
                ELSE /\ errlog' = errlog
                     /\ IF IsDir(path) THEN sizeMap' = sizeMap
                        ELSE IF info[path].kind = "symlink" THEN sizeMap' = sizeMap
                        ELSE IF Size(path) = 0 THEN sizeMap' = sizeMap
                        ELSE sizeMap' = MapAppend(sizeMap, Size(path), path)
           /\ entryIdx' = IF last THEN 1 ELSE entryIdx + 1
           /\ rootIdx' = IF last THEN rootIdx + 1 ELSE rootIdx
           /\ pc' = IF last /\ rootIdx = Len(partitions) THEN "hash" ELSE "walk"
    /\ UNCHANGED <<inputVars, present, envRemoves, hashVars, hashMap, procVars, stdout>>

\* ------------------------------------------------------------------ hash
\* `for size, files := range sizeMap` (lines 80-83): Go ranges over a map in an
\* unspecified order, so the next key is any key not yet visited.  A bucket
\* with fewer than 2 files is skipped.
NextBucket ==
    /\ pc = "hash"
    /\ curSize = None
    /\ \E size \in DOMAIN sizeMap \ sizesDone :
         IF Len(sizeMap[size]) < 2
           THEN /\ sizesDone' = sizesDone \cup {size}
                /\ UNCHANGED <<curSize, fileIdx>>
           ELSE /\ curSize' = size
                /\ fileIdx' = 1
                /\ UNCHANGED sizesDone
    /\ UNCHANGED <<inputVars, present, envRemoves, pc, walkVars, hashMap, totalFiles,
                   procVars, stdout, errlog>>

\* One turn of `for _, path := range files` (lines 89-98).
HashFile ==
    /\ pc = "hash"
    /\ curSize # None
    /\ LET files == sizeMap[curSize]
           path == files[fileIdx]
           last == fileIdx = Len(files)
       IN  /\ IF ~FileHashOk(path)
                THEN /\ errlog' = Append(errlog, <<"Error hashing", path>>)
                     /\ UNCHANGED <<hashMap, totalFiles>>
                ELSE /\ hashMap' = MapAppend(hashMap, FileHash(path), path)
                     /\ totalFiles' = totalFiles + 1
                     /\ errlog' = errlog
           /\ fileIdx' = IF last THEN 1 ELSE fileIdx + 1
           /\ curSize' = IF last THEN None ELSE curSize
           /\ sizesDone' = IF last THEN sizesDone \cup {curSize} ELSE sizesDone
    /\ UNCHANGED <<inputVars, present, envRemoves, pc, walkVars, procVars, stdout>>

\* The range over sizeMap is exhausted: on to the duplicates (lines 101-103).
HashDone ==
    /\ pc = "hash"
    /\ curSize = None
    /\ sizesDone = DOMAIN sizeMap
    /\ pc' = "process"
    /\ UNCHANGED <<inputVars, present, envRemoves, walkVars, hashVars, hashMap,
                   procVars, stdout, errlog>>

\* --------------------------------------------------------------- ordering
LessNewestFirst(p, q) ==
    IF VolumeName(p) # VolumeName(q)
      THEN VolumeName(p) < VolumeName(q)
      ELSE ModTime(p) > ModTime(q)

\* The comparator of sort.Slice (lines 111-122) on two paths whose os.Stat
\* succeeded: volume name ascending, then modification time ascending.
Less(p, q) ==
    IF VolumeName(p) # VolumeName(q)
      THEN VolumeName(p) < VolumeName(q)
      ELSE ModTime(p) < ModTime(q)

\* The comparator discards the error of os.Stat and calls ModTime() on its
\* result when the two volume names are equal: on a path that no longer exists
\* the result is nil and the call panics.  A comparison sort cannot place a
\* member among the others of its volume without comparing it with one of them,
\* so the sort panics exactly when a missing member shares its volume name with
\* another member.
SortPanics(files) ==
    \E i, j \in 1..Len(files) :
        /\ i # j
        /\ VolumeName(files[i]) = VolumeName(files[j])
        /\ (~StatOk(files[i]) \/ ~StatOk(files[j]))

Reverse(s) == [i \in 1..Len(s) |-> s[Len(s) + 1 - i]]

RECURSIVE Insert(_, _)
\* Insertion from the right: x moves left while it is less than its predecessor.
Insert(s, x) ==
    IF s = <<>> \/ ~Less(x, s[Len(s)])
      THEN Append(s, x)
      ELSE Append(Insert(SubSeq(s, 1, Len(s) - 1), x), s[Len(s)])

RECURSIVE InsertionSort(_)
InsertionSort(s) ==
    IF s = <<>> THEN <<>>
    ELSE Insert(InsertionSort(SubSeq(s, 1, Len(s) - 1)), s[Len(s)])

\* sort.Slice: "The sort is not guaranteed to be stable: equal elements may be
\* reversed from their original order."  Go's sort keeps the equal elements of
\* a short slice in order and reorders those of a longer one; the groups here
\* are short stand-ins for groups of any length, so both outcomes are admitted:
\* the result is sorted by Less, with equal elements in their original order
\* ("stable") or reversed ("reversing").
SortImpls == {"stable", "reversing"}
SortSlice(impl, files) ==
    IF impl = "stable" THEN InsertionSort(files)
    ELSE InsertionSort(Reverse(files))

\* keeper := files[0]; duplicates := files[1:] (lines 125-126); Go's index 0 is
\* index 1 here.
Keeper(files) == files[1]

DuplicatesWithKeeper(files) == files
Duplicates(files) == SubSeq(files, 2, Len(files))

\* --------------------------------------------------------------- process
\* `for hash, files := range hashMap` (lines 105-129): any key not yet visited;
\* a group with fewer than 2 files is skipped, the others are sorted in place
\* (files shares hashMap[hash]'s backing array) and their keeper is printed.
NextGroup ==
    /\ pc = "process"
    /\ curHash = None
    /\ \E hash \in DOMAIN hashMap \ hashesDone :
         LET files == hashMap[hash] IN
         IF Len(files) < 2
           THEN /\ hashesDone' = hashesDone \cup {hash}
                /\ UNCHANGED <<pc, curHash, dupIdx, hashMap, stdout, errlog>>
         ELSE IF SortPanics(files)
           THEN /\ pc' = "panic"
                /\ errlog' = Append(errlog, <<"panic in sort", hash>>)
                /\ UNCHANGED <<hashesDone, curHash, dupIdx, hashMap, stdout>>
           ELSE /\ \E impl \in SortImpls :
                     /\ hashMap' = [hashMap EXCEPT ![hash] = SortSlice(impl, files)]
                     /\ stdout' = stdout \o
                            <<<<"Duplicate group", hash>>,
                              <<"Keeper", Keeper(SortSlice(impl, files))>>>>
                /\ curHash' = hash
                /\ dupIdx' = 1
                /\ UNCHANGED <<pc, hashesDone, errlog>>
    /\ UNCHANGED <<inputVars, present, envRemoves, walkVars, hashVars,
                   duplicateCount, totalSaved, response>>

Responses == {"y", "Y", "n", ""}

AcceptsUnlessNo(answer) == answer # "n"

\* The test of line 142: the response that lets the deletion go on.
Accepts(answer) == answer = "y" \/ answer = "Y"

\* Lines 137-138: is the user asked about this duplicate?
Asks == ~dryRun /\ confirm

ReachesRemoveDryRunLast(answer) ==
    IF confirm THEN Accepts(answer)
    ELSE ~dryRun

\* Lines 137-145: is os.Remove reached for this duplicate, given the answer?
ReachesRemove(answer) ==
    IF dryRun THEN FALSE
    ELSE IF confirm THEN Accepts(answer)
    ELSE TRUE

\* What os.Remove may return on a file that exists: success, or an error (for
\* lack of permission) while the run has had fewer than MaxRemoveFailures.
RemoveFailures == Cardinality({i \in DOMAIN errlog : errlog[i][1] = "Error deleting"})
RemoveOutcomes == IF RemoveFailures < MaxRemoveFailures THEN {TRUE, FALSE} ELSE {TRUE}

\* One turn of `for _, dup := range duplicates` (lines 130-154).  answer is
\* what fmt.Scanln reads, removeOk whether os.Remove succeeds (it may fail on a
\* file that exists, for lack of permission).  os.Stat's error is discarded and
\* Size() is called on its result: on a path that no longer exists this panics.
HandleDuplicate ==
    /\ pc = "process"
    /\ curHash # None
    /\ LET duplicates == Duplicates(hashMap[curHash])
           dup == duplicates[dupIdx]
           last == dupIdx = Len(duplicates)
       IN  /\ duplicateCount' = duplicateCount + 1
           /\ IF ~StatOk(dup)
                THEN /\ pc' = "panic"
                     /\ errlog' = Append(errlog, <<"panic in duplicates", dup>>)
                     /\ UNCHANGED <<totalSaved, stdout, present, curHash, dupIdx,
                                    hashesDone, response>>
                ELSE /\ totalSaved' = totalSaved + Size(dup)
                     /\ \E answer \in Responses, removeOk \in RemoveOutcomes :
                          LET line == <<<<"Duplicate", dup>>>>
                                      \o (IF Asks THEN <<<<"Delete?", dup>>>> ELSE <<>>)
                          IN
                          /\ response' = IF Asks THEN answer ELSE response
                          /\ IF ~ReachesRemove(answer)
                               THEN /\ stdout' = stdout \o line
                                    /\ UNCHANGED <<present, errlog>>
                             ELSE IF removeOk
                               THEN /\ present' = present \ {dup}
                                    /\ stdout' = stdout \o line \o <<<<"Deleted", dup>>>>
                                    /\ errlog' = errlog
                               ELSE /\ errlog' = Append(errlog, <<"Error deleting", dup>>)
                                    /\ stdout' = stdout \o line
                                    /\ present' = present
                     /\ dupIdx' = IF last THEN 1 ELSE dupIdx + 1
                     /\ curHash' = IF last THEN None ELSE curHash
                     /\ hashesDone' = IF last THEN hashesDone \cup {curHash}
                                      ELSE hashesDone
                     /\ pc' = pc
    /\ UNCHANGED <<inputVars, envRemoves, walkVars, hashVars, hashMap>>

\* The summary (lines 157-163), once the range over hashMap is exhausted.
Summary ==
    /\ pc = "process"
    /\ curHash = None
    /\ hashesDone = DOMAIN hashMap
    /\ pc' = "done"
    /\ stdout' = stdout \o <<<<"Total files processed", totalFiles>>,
                             <<"Total duplicates found", duplicateCount>>,
                             <<"Potential space saved MB", totalSaved \div MB>>>>
                        \o (IF dryRun THEN <<<<"DRY-RUN", 0>>>> ELSE <<>>)
    /\ UNCHANGED <<inputVars, present, envRemoves, walkVars, hashVars, hashMap,
                   procVars, errlog>>

\* ------------------------------------------------------------ environment
\* The walk has yet to call its callback on p.
StillToVisit(p) ==
    \/ \E i \in entryIdx..Len(Entries(partitions[rootIdx])) :
          Entries(partitions[rootIdx])[i] = p
    \/ \E r \in (rootIdx + 1)..Len(partitions) :
          \E i \in DOMAIN Entries(partitions[r]) : Entries(partitions[r])[i] = p

\* p is in a size bucket of 2 or more files.
InCandidateBucket(p) ==
    \E size \in DOMAIN sizeMap :
        /\ Len(sizeMap[size]) >= 2
        /\ \E i \in 1..Len(sizeMap[size]) : sizeMap[size][i] = p

\* Another process removes a file while the program runs (file-system state is
\* not locked between the reads).  Only removals the program can observe are
\* modelled: during the walk, a file the callback has yet to be called on;
\* afterwards, a file in a size bucket of 2 or more, the only paths the program
\* touches after the walk.
EnvRemove ==
    /\ pc \in {"walk", "hash", "process"}
    /\ envRemoves < MaxEnvRemoves
    /\ \E p \in present :
         /\ IF pc = "walk" THEN StillToVisit(p) ELSE InCandidateBucket(p)
         /\ present' = present \ {p}
    /\ envRemoves' = envRemoves + 1
    /\ UNCHANGED <<inputVars, pc, walkVars, hashVars, hashMap, procVars, stdout, errlog>>

Next ==
    \/ WalkEntry
    \/ NextBucket
    \/ HashFile
    \/ HashDone
    \/ NextGroup
    \/ HandleDuplicate
    \/ Summary
    \/ EnvRemove

Spec == Init /\ [][Next]_vars

\* ================================================================ claims
Range(s) == {s[i] : i \in DOMAIN s}

\* What was printed, or logged, under a heading.
Printed(kind) == {stdout[i][2] : i \in {j \in DOMAIN stdout : stdout[j][1] = kind}}
Logged(kind) == {errlog[i][2] : i \in {j \in DOMAIN errlog : errlog[j][1] = kind}}
LastLogged(kind) == errlog # <<>> /\ errlog[Len(errlog)][1] = kind

\* os.Remove was called on p: it either printed "Deleted" or logged an error.
RemoveCalled(p) == p \in Printed("Deleted") \/ p \in Logged("Error deleting")

\* The paths the walk recorded.
Scanned == UNION {Range(sizeMap[size]) : size \in DOMAIN sizeMap}

\* The digest groups with at least 2 members that have been sorted: their
\* keeper is designated and printed.
Groups ==
    {h \in DOMAIN hashMap : Len(hashMap[h]) >= 2 /\ (h \in hashesDone \/ h = curHash)}

RECURSIVE SumOver(_, _)
\* The sum of f over the finite set S.
SumOver(f, S) ==
    IF S = {} THEN 0
    ELSE LET x == CHOOSE y \in S : TRUE IN f[x] + SumOver(f, S \ {x})

\* ---------------------------------------------------------------- C1
\* C1 (as claimed): in every digest group with at least 2 members, the path at
\* position 0 after sorting, the keeper, is never passed to os.Remove.
C1_KeeperNeverRemoved ==
    \A h \in Groups : ~RemoveCalled(hashMap[h][1])

\* ---------------------------------------------------------------- C2
\* C2: with --dry-run, whatever --confirm is, os.Remove is never called and no
\* prompt is shown: the paths missing from the file system are exactly those
\* other processes removed.
C2_DryRunRemovesNothing ==
    dryRun =>
        /\ Printed("Deleted") = {}
        /\ Logged("Error deleting") = {}
        /\ Printed("Delete?") = {}
        /\ Cardinality(Paths \ present) = envRemoves

\* A dry run with --confirm that reported a duplicate and reached the summary.
C2_Witness ==
    /\ dryRun
    /\ confirm
    /\ pc = "done"
    /\ Printed("Duplicate") # {}

\* ---------------------------------------------------------------- C3
\* C3: without --dry-run and with --confirm, in every turn of the duplicates
\* loop that read a response, the duplicate is removed only if the response is
\* "y" or "Y"; on any other response nothing is removed and no removal is
\* attempted, the duplicate is printed and asked about, it is counted in both
\* statistics, and the loop goes on to the next duplicate or group.
C3_RemovedOnlyOnYes ==
    [][(/\ ~dryRun
        /\ confirm
        /\ pc = "process"
        /\ pc' = "process"
        /\ duplicateCount' = duplicateCount + 1)
       => LET dup == hashMap[curHash][dupIdx + 1] IN
          /\ (dup \notin present' => response' \in {"y", "Y"})
          /\ (response' \notin {"y", "Y"} =>
                /\ present' = present
                /\ errlog' = errlog
                /\ stdout' = stdout \o <<<<"Duplicate", dup>>, <<"Delete?", dup>>>>
                /\ totalSaved' = totalSaved + Len(info[dup].content)
                /\ IF dupIdx + 1 < Len(hashMap[curHash])
                     THEN curHash' = curHash /\ dupIdx' = dupIdx + 1
                     ELSE curHash' = None /\ hashesDone' = hashesDone \cup {curHash})
      ]_vars

\* The user answered "n" about a duplicate, which is still there, and the run
\* went on to the summary.
C3_Witness ==
    /\ ~dryRun
    /\ confirm
    /\ response = "n"
    /\ pc = "done"
    /\ \E p \in Printed("Delete?") : p \in present /\ ~RemoveCalled(p)

\* ---------------------------------------------------------------- C4
\* The non-keeper members of the digest groups with at least 2 members.
NonKeeperCount ==
    SumOver([h \in DOMAIN hashMap |->
                IF Len(hashMap[h]) >= 2 THEN Len(hashMap[h]) - 1 ELSE 0],
            DOMAIN hashMap)

NonKeeperBytes ==
    SumOver([h \in DOMAIN hashMap |->
                SumOver([i \in 2..Len(hashMap[h]) |-> Len(info[hashMap[h][i]].content)],
                        2..Len(hashMap[h]))],
            DOMAIN hashMap)

\* C4: when the summary is printed, in every mode and whatever each removal
\* did, "duplicates found" is the number of non-keeper members of the groups
\* with at least 2 members and the reclaimable bytes are the sum of the sizes
\* of exactly those members; neither counter ever decreases.
C4_StatisticsCountIdentified ==
    /\ [](pc = "done" =>
            /\ duplicateCount = NonKeeperCount
            /\ totalSaved = NonKeeperBytes
            /\ Printed("Total duplicates found") = {NonKeeperCount}
            /\ Printed("Potential space saved MB") = {NonKeeperBytes \div 1048576})
    /\ [][duplicateCount' >= duplicateCount /\ totalSaved' >= totalSaved]_vars

\* A run that reached the summary after deleting one duplicate, failing to
\* delete another and skipping a third on the user's answer.
C4_Witness ==
    /\ pc = "done"
    /\ Printed("Deleted") # {}
    /\ Logged("Error deleting") # {}
    /\ \E p \in Printed("Delete?") : ~RemoveCalled(p)

\* ---------------------------------------------------------------- C5
\* C5 (as claimed): a duplicate that cannot be removed, one whose path no
\* longer exists when its turn comes included, never aborts the run.
C5_MissingDuplicateNeverAborts ==
    ~(pc = "panic" /\ LastLogged("panic in duplicates"))

C7_UniqueSizeNeverGrouped ==
    \A h \in DOMAIN hashMap :
        \A p \in Range(hashMap[h]) :
            /\ info[p].kind = "file"
            /\ Len(info[p].content) > 0
            /\ \E q \in Scanned \ {p} : Len(info[q].content) = Len(info[p].content)

\* ---------------------------------------------------------------- C8
\* p sorts before q: lower volume name, or the same volume name and older.
Precedes(p, q) ==
    \/ info[p].vol < info[q].vol
    \/ info[p].vol = info[q].vol /\ info[p].mtime < info[q].mtime

RECURSIVE WalkOrder(_)
\* The entries the walks of the roots visit, in order.
WalkOrder(roots) ==
    IF roots = <<>> THEN <<>> ELSE Entries(Head(roots)) \o WalkOrder(Tail(roots))

\* The records of an undisturbed scan: the regular files of non-zero size, in
\* discovery order.
Candidates ==
    LET Recorded(p) == p \in Paths /\ info[p].kind = "file" /\ info[p].content # <<>>
    IN  SelectSeq(WalkOrder(partitions), Recorded)

\* The members of digest h in discovery order, as the tree and the list of
\* roots alone determine them: the candidates of that digest whose size at
\* least 2 candidates have.
ExpectedMembers(h) ==
    LET cands == Candidates
        Shared(p) == \E i, j \in DOMAIN cands :
                        /\ i # j
                        /\ cands[i] = p
                        /\ Len(info[cands[j]].content) = Len(info[p].content)
        Member(p) == Sha256(info[p].content) = h /\ Shared(p)
    IN  SelectSeq(cands, Member)

\* The first member of s that no member of s precedes.
FirstMinimal(s) ==
    LET Minimal(i) == \A j \in DOMAIN s : ~Precedes(s[j], s[i])
    IN  s[CHOOSE i \in DOMAIN s : Minimal(i) /\ \A j \in 1..(i - 1) : ~Minimal(j)]

Occurrences(s, x) == Cardinality({i \in DOMAIN s : s[i] = x})

C9_OrderingNeverFails ==
    ~(pc = "panic" /\ LastLogged("panic in sort"))

\* ---------------------------------------------------------------- C10
Digests == {Sha256(c) : c \in Contents}

====
